---- MODULE Spec2Model ----
(***************************************************************************)
(* Token-budgeted conversation manager of Mo-To-Mi                         *)
(* (TheFive/StrategistAgent/AgentSkeleton/core/token_management.py):       *)
(* the token estimator, the context fitter and the conversation state      *)
(* machine.                                                                *)
(*                                                                         *)
(* Text.  A Python string is modelled by the token sequence the tiktoken   *)
(* encoding gives it, kept run-length encoded: a text is a sequence of     *)
(* segments [src, from, n] standing for the n tokens from+1 .. from+n of   *)
(* the source string src.  Two texts are equal iff their token sequences   *)
(* are equal (segments are kept merged).  Concatenating strings            *)
(* concatenates token sequences (merges of tokens across the seam are not  *)
(* modelled).                                                              *)
(***************************************************************************)
EXTENDS Integers, Sequences, FiniteSets, TLC

VARIABLES
    \* ---- TokenManagedConversation / TokenManager state
    messages,                \* self.messages: sequence of Message
    system_prompt,           \* self.system_prompt: NoPrompt (None) or a text
    client,                  \* self.client is configured
    max_tokens,              \* token_manager.max_tokens
    warning_threshold,       \* token_manager.warning_threshold, in percent
    summarize_threshold,     \* token_manager.summarize_threshold, in percent
    current_tokens,          \* token_manager.current_tokens
    warning_issued,          \* token_manager.warning_issued
    summarization_performed, \* token_manager.summarization_performed
    \* ---- the one suspended maybe_summarize call
    pc,                      \* "idle" | "awaiting" (inside await client.complete);
                             \* "off" while only the fitter is exercised
    to_summarize,            \* local of maybe_summarize, live while awaiting
    recent_messages,         \* local of maybe_summarize, live while awaiting
    \* ---- observation of the calls made
    ret,                     \* what the maybe_summarize that ran last returned
    completion,              \* how its completion call ended, and the summary returned
    requests,                \* completion requests issued so far
    out,                     \* what the get_messages / get_token_status that ran last returned
    successes,               \* maybe_summarize calls that returned True since clear()
    pre,                     \* state at entry of the last maybe_summarize
    run0,                    \* the current run of consecutive set_system_prompt calls:
                             \* calls made (2 for more), tokens other than the prompt's
                             \* when it began, whether the last call replaced another
                             \* non-empty prompt
    \* ---- process_with_tools on this conversation
    turn,                    \* its calls so far, the memories argument of the
                             \* current one, and what it read and appended
    \* ---- TokenManager.fit_messages_to_context as a pure function
    fit_pc,                  \* "off" | "input" | "fitted" | "refitted"
    fit_in,                  \* messages argument
    usable_token_limit,      \* token_manager.usable_token_limit
    fit_out,                 \* fit_messages_to_context(fit_in)
    refit_out                \* fit_messages_to_context(fit_out)

vars == <<messages, system_prompt, client, max_tokens, warning_threshold,
          summarize_threshold, current_tokens, warning_issued,
          summarization_performed, pc, to_summarize, recent_messages,
          ret, completion, requests, out, successes, pre, run0, turn,
          fit_pc, fit_in, usable_token_limit, fit_out, refit_out>>

convVars == <<messages, system_prompt, client, max_tokens, warning_threshold,
              summarize_threshold, current_tokens, warning_issued,
              summarization_performed, pc, to_summarize, recent_messages,
              ret, completion, requests, out, successes, pre, run0, turn>>

fitVars == <<fit_pc, fit_in, usable_token_limit, fit_out, refit_out>>

----------------------------------------------------------------------------
(* Bounds of the model *)

MaxFitMsgs == 6
MaxFitSystem == 2
MaxInFlight == 1
MaxCountMsgs == 2
MaxTarget == 40
MaxMsgs == 7
MaxRequests == 3
MaxTurns == 3

(* Program constants.  The four token counts of literal strings (the       *)
(* truncation notice, the placeholder, the two halves of the summary       *)
(* wrapper) are their lengths under cl100k_base, estimated by hand; the    *)
(* model relies only on the notice being shorter than NoticeHeadroom.      *)
(* The same holds for the literal strings process_with_tools appends to    *)
(* the system prompt: the separator, the two notices, and the header and   *)
(* footer of the memory block.                                             *)

MessageFormatTokens == 4
ReplyPrimingTokens == 3
PreserveRecent == 4
LastResortRecent == 2
MinTruncateSpace == 100
NoticeHeadroom == 10
NoticeTokens == 4
PlaceholderTokens == 7
SummaryOpenTokens == 9
SummaryCloseTokens == 1
ResponseTokenBuffer == 1000
MinSummarizeMessages == 6
KeepRecent == 4
SeparatorTokens == 1
MemoryHeaderTokens == 28
MemoryFooterTokens == 9
SummarizedNoteTokens == 13
TokenWarningTokens == 36

----------------------------------------------------------------------------
(* Texts and the tokenizer *)

Seg(src, from, n) == [src |-> src, from |-> from, n |-> n]

\* the string whose encoding is the n tokens 1..n of source src
TextOf(src, n) == IF n = 0 THEN <<>> ELSE <<Seg(src, 0, n)>>

\* str + str
Concat(t1, t2) ==
    IF t1 = <<>> THEN t2
    ELSE IF t2 = <<>> THEN t1
    ELSE LET a == t1[Len(t1)]
             b == Head(t2)
         IN  IF a.src = b.src /\ a.from + a.n = b.from
             THEN SubSeq(t1, 1, Len(t1) - 1) \o <<[a EXCEPT !.n = a.n + b.n]>>
                  \o Tail(t2)
             ELSE t1 \o t2

\* encoding.encode(text): the token sequence of the text
Encode(text) == text

\* encoding.decode(tokens): the text of a token sequence
Decode(tokens) == tokens

RECURSIVE TokenLen(_)
TokenLen(tokens) ==
    IF tokens = <<>> THEN 0 ELSE Head(tokens).n + TokenLen(Tail(tokens))

RECURSIVE TakeTokens(_, _)
TakeTokens(tokens, k) ==
    IF k <= 0 \/ tokens = <<>> THEN <<>>
    ELSE IF Head(tokens).n <= k
         THEN <<Head(tokens)>> \o TakeTokens(Tail(tokens), k - Head(tokens).n)
         ELSE <<[Head(tokens) EXCEPT !.n = k]>>

\* Python's tokens[:k]; a negative k counts from the end
SliceTo(tokens, k) ==
    IF k >= 0 THEN TakeTokens(tokens, k)
    ELSE TakeTokens(tokens, TokenLen(tokens) + k)

\* TokenCounter.count_text_tokens
count_text_tokens(text) ==
    IF text = <<>> THEN 0 ELSE TokenLen(Encode(text))

\* estimate_tokens
estimate_tokens(text) == count_text_tokens(text)

\* the role as a text: "system", "user" and "assistant" are one token of the
\* encoding each, a role of two words is two tokens
RoleText(role) ==
    IF role = "" THEN <<>>
    ELSE IF role = "tool result" THEN TextOf(role, 2)
    ELSE TextOf(role, 1)

count_message_tokens_fixed_overhead(message) ==
    MessageFormatTokens + 1
    + (IF message.content # <<>> THEN count_text_tokens(message.content) ELSE 0)

\* TokenCounter.count_message_tokens, for a {role, content} dict
count_message_tokens(message) ==
    MessageFormatTokens
    + (IF message.role # "" THEN count_text_tokens(RoleText(message.role)) ELSE 0)
    + (IF message.content # <<>> THEN count_text_tokens(message.content) ELSE 0)

RECURSIVE SumMessageTokens(_)
SumMessageTokens(msgs) ==
    IF msgs = <<>> THEN 0
    ELSE count_message_tokens(Head(msgs)) + SumMessageTokens(Tail(msgs))

\* TokenCounter.count_messages_tokens
count_messages_tokens(msgs) == SumMessageTokens(msgs) + ReplyPrimingTokens

----------------------------------------------------------------------------
(* The context fitter *)

\* " [... truncated]"
TruncationNotice == TextOf("notice", NoticeTokens)

\* "[Content truncated due to length]"
Placeholder == TextOf("placeholder", PlaceholderTokens)

\* seq[-n:] for n > 0
LastN(seq, n) ==
    IF Len(seq) <= n THEN seq ELSE SubSeq(seq, Len(seq) - n + 1, Len(seq))

\* seq[:-n] for n > 0
AllButLastN(seq, n) ==
    IF Len(seq) <= n THEN <<>> ELSE SubSeq(seq, 1, Len(seq) - n)

IsSystem(msg) == msg.role = "system"
IsRegular(msg) == ~IsSystem(msg)

\* TokenManager._truncate_message_content
TruncateMessageContent(message, limit) ==
    LET content == message.content
        non_content_tokens == count_message_tokens([message EXCEPT !.content = <<>>])
        content_token_limit == limit - non_content_tokens
    IN  IF content_token_limit <= 0
        THEN [message EXCEPT !.content = Placeholder]
        ELSE IF count_text_tokens(content) <= content_token_limit
        THEN message
        ELSE [message EXCEPT !.content =
                 Concat(Decode(SliceTo(Encode(content),
                                       content_token_limit - NoticeHeadroom)),
                        TruncationNotice)]

\* TokenManager._truncate_message_contents
RECURSIVE TruncateMessageContents(_, _)
TruncateMessageContents(msgs, remaining_tokens) ==
    IF msgs = <<>> THEN <<>>
    ELSE LET msg == msgs[Len(msgs)]
             msg_tokens == count_message_tokens(msg)
         IN  IF msg_tokens <= remaining_tokens
             THEN TruncateMessageContents(SubSeq(msgs, 1, Len(msgs) - 1),
                                          remaining_tokens - msg_tokens)
                  \o <<msg>>
             ELSE <<TruncateMessageContent(msg, remaining_tokens)>>

IncludeOlderAlwaysTruncated(older_messages, available_tokens) ==
    IF older_messages = <<>> THEN <<>>
    ELSE <<TruncateMessageContent(older_messages[Len(older_messages)],
                                  available_tokens)>>

RECURSIVE IncludeOlderSkipping(_, _)
IncludeOlderSkipping(older_messages, available_tokens) ==
    IF older_messages = <<>> THEN <<>>
    ELSE LET msg == older_messages[Len(older_messages)]
             msg_tokens == count_message_tokens(msg)
             rest == SubSeq(older_messages, 1, Len(older_messages) - 1)
         IN  IF msg_tokens <= available_tokens
             THEN IncludeOlderSkipping(rest, available_tokens - msg_tokens) \o <<msg>>
             ELSE IncludeOlderSkipping(rest, available_tokens)

\* the loop over reversed(older_messages) of fit_messages_to_context
RECURSIVE IncludeOlder(_, _)
IncludeOlder(older_messages, available_tokens) ==
    IF older_messages = <<>> THEN <<>>
    ELSE LET msg == older_messages[Len(older_messages)]
             msg_tokens == count_message_tokens(msg)
         IN  IF msg_tokens <= available_tokens
             THEN IncludeOlder(SubSeq(older_messages, 1, Len(older_messages) - 1),
                               available_tokens - msg_tokens)
                  \o <<msg>>
             ELSE IF available_tokens > MinTruncateSpace
                  THEN <<TruncateMessageContent(msg, available_tokens)>>
                  ELSE <<>>

\* the last-resort branch is taken
Degraded(msgs, limit) ==
    LET system_messages == SelectSeq(msgs, IsSystem)
        regular_messages == SelectSeq(msgs, IsRegular)
        fixed_messages == system_messages \o LastN(regular_messages, PreserveRecent)
    IN  /\ msgs # <<>>
        /\ count_messages_tokens(msgs) > limit
        /\ count_messages_tokens(fixed_messages) >= limit

CombineKeptSystemLast(system_messages, included_older, recent) ==
    included_older \o recent \o system_messages

CombineKeptWithoutSystem(system_messages, included_older, recent) ==
    included_older \o recent

\* result = system_messages + included_older + recent
CombineKept(system_messages, included_older, recent) ==
    system_messages \o included_older \o recent

\* TokenManager.fit_messages_to_context with the default arguments
fit_messages_to_context(msgs, limit) ==
    IF msgs = <<>> THEN <<>>
    ELSE IF count_messages_tokens(msgs) <= limit THEN msgs
    ELSE
      LET system_messages == SelectSeq(msgs, IsSystem)
          regular_messages == SelectSeq(msgs, IsRegular)
          recent == LastN(regular_messages, PreserveRecent)
          older_messages == AllButLastN(regular_messages, PreserveRecent)
          fixed_messages == system_messages \o recent
          fixed_tokens == count_messages_tokens(fixed_messages)
      IN  IF fixed_tokens >= limit
          THEN TruncateMessageContents(
                   IF recent # <<>>
                   THEN system_messages \o LastN(recent, LastResortRecent)
                   ELSE system_messages,
                   limit)
          ELSE CombineKept(system_messages,
                           IncludeOlder(older_messages, limit - fixed_tokens),
                           recent)

----------------------------------------------------------------------------
(* The caller's objects: what a call leaves in the list it was handed *)

TruncationWritesOriginal(message, limit) ==
    TruncateMessageContent(message, limit)

\* the message handed to _truncate_message_content, as its owner finds it
\* after the call: the content is assigned to result = message.copy()
MessageAfterTruncation(message, limit) == message

\* the indices of the system messages of msgs, in order
SystemPositions(msgs) ==
    SelectSeq([i \in 1..Len(msgs) |-> i], LAMBDA i : IsSystem(msgs[i]))

\* the indices of the other messages of msgs, in order
RegularPositions(msgs) ==
    SelectSeq([i \in 1..Len(msgs) |-> i], LAMBDA i : IsRegular(msgs[i]))

\* walking the positions from the last one: the first message that does not
\* fit what the ones after it leave of the budget (pos = 0 when all fit)
RECURSIVE FirstUnfit(_, _, _)
FirstUnfit(msgs, positions, budget) ==
    IF positions = <<>> THEN [pos |-> 0, budget |-> budget]
    ELSE LET p == positions[Len(positions)]
             msg_tokens == count_message_tokens(msgs[p])
         IN  IF msg_tokens <= budget
             THEN FirstUnfit(msgs, SubSeq(positions, 1, Len(positions) - 1),
                             budget - msg_tokens)
             ELSE [pos |-> p, budget |-> budget]

\* the call of _truncate_message_content that fit_messages_to_context makes:
\* the position of its message in msgs and its max_tokens (pos = 0: no call)
TruncationCall(msgs, limit) ==
    LET system_positions == SystemPositions(msgs)
        regular_positions == RegularPositions(msgs)
        recent == LastN(regular_positions, PreserveRecent)
        older == AllButLastN(regular_positions, PreserveRecent)
        none == [pos |-> 0, budget |-> 0]
    IN  IF msgs = <<>> \/ count_messages_tokens(msgs) <= limit THEN none
        ELSE IF Degraded(msgs, limit)
        THEN FirstUnfit(msgs,
                        IF recent # <<>>
                        THEN system_positions \o LastN(recent, LastResortRecent)
                        ELSE system_positions,
                        limit)
        ELSE LET call == FirstUnfit(msgs, older,
                                    limit - count_messages_tokens(
                                        SelectSeq(msgs, IsSystem)
                                        \o LastN(SelectSeq(msgs, IsRegular),
                                                 PreserveRecent)))
             IN  IF call.pos # 0 /\ call.budget > MinTruncateSpace
                 THEN call ELSE none

\* the list handed to fit_messages_to_context, as its owner finds it after
\* the call
InputAfterFit(msgs, limit) ==
    LET call == TruncationCall(msgs, limit)
    IN  IF call.pos = 0 THEN msgs
        ELSE [msgs EXCEPT ![call.pos] =
                 MessageAfterTruncation(msgs[call.pos], call.budget)]

----------------------------------------------------------------------------
(* Inputs of the fitter *)

FitLens == {0, 30, 200}
FitSystemLens == {0, 30}
FitLimits == {0, 8, 16, 58, 180}
FitSources == <<"m1", "m2", "m3", "m4", "m5", "m6", "m7", "m8">>
FitKinds == {"system", "regular"}

FitRole(kind, i) ==
    IF kind = "system" THEN "system"
    ELSE IF i % 2 = 1 THEN "user" ELSE "assistant"

FitShapes(n) ==
    {sh \in [1..n -> FitKinds \X FitLens] :
        /\ Cardinality({i \in 1..n : sh[i][1] = "system"}) <= MaxFitSystem
        /\ \A i \in 1..n : sh[i][1] = "system" => sh[i][2] \in FitSystemLens}

FitInput(sh) ==
    [i \in DOMAIN sh |->
        [role |-> FitRole(sh[i][1], i), content |-> TextOf(FitSources[i], sh[i][2])]]

\* arguments of _truncate_message_content: one message and max_tokens
TruncLens == {0, 5, 30, 200}
TruncTargets == 0..MaxTarget

\* arguments of count_message_tokens and count_messages_tokens
CountRoles == {"", "system", "user", "tool result"}
CountLens == {0, 30}
CountMessages ==
    {[role |-> role, content |-> TextOf("m1", len)] :
        role \in CountRoles, len \in CountLens}

----------------------------------------------------------------------------
(* The conversation: Message, TokenManager counters, TokenManagedConversation *)

\* self.system_prompt: None, or a string (possibly empty)
NoPrompt == [set |-> FALSE, text |-> <<>>]
PromptOf(text) == [set |-> TRUE, text |-> text]

\* Python truth value of self.system_prompt
Truthy(prompt) == prompt.set /\ prompt.text # <<>>

MessageWithOverhead(content, role) ==
    [content |-> content, role |-> role,
     token_count |-> estimate_tokens(content) + MessageFormatTokens]

\* Message.__init__ with token_count = None
Message(content, role) ==
    [content |-> content, role |-> role, token_count |-> estimate_tokens(content)]

\* Message.to_dict
to_dict(message) == [role |-> message.role, content |-> message.content]

\* "[SUMMARY OF PREVIOUS CONVERSATION: " and "]"
SummaryOpen == TextOf("summary_open", SummaryOpenTokens)
SummaryClose == TextOf("summary_close", SummaryCloseTokens)

SummaryMessageCountingWrapper(summary_text, summary_tokens) ==
    [content |-> Concat(Concat(SummaryOpen, summary_text), SummaryClose),
     role |-> "system",
     token_count |-> summary_tokens + SummaryOpenTokens + SummaryCloseTokens]

\* the Message built by maybe_summarize for the summary
SummaryMessage(summary_text, summary_tokens) ==
    [content |-> Concat(Concat(SummaryOpen, summary_text), SummaryClose),
     role |-> "system",
     token_count |-> summary_tokens]

\* slip: the usable limit (max_tokens - response_token_buffer) as divisor
UsageCeilingUsable == usable_token_limit

\* the number get_usage_percent divides by
UsageCeiling == max_tokens

\* TokenManager.get_usage_percent() >= threshold, for a count of tokens and a
\* threshold in percent (exact: both sides are multiplied by 100 * max_tokens)
UsageReaches(tokens, threshold) ==
    IF UsageCeiling > 0
    THEN tokens * 100 >= threshold * UsageCeiling
    ELSE 0 >= threshold

\* slip: the flag recomputed from the new count
WarningAfterAddRecomputed(flag, tokens) ==
    UsageReaches(tokens, warning_threshold)

\* the flag TokenManager.add_tokens leaves, given the flag before and the new count
WarningAfterAdd(flag, tokens) ==
    flag \/ UsageReaches(tokens, warning_threshold)

\* TokenManager.add_tokens applied to the counters (tokens, flag)
AddTokens(tokens, flag, count) ==
    [current_tokens |-> tokens + count,
     warning_issued |-> WarningAfterAdd(flag, tokens + count)]

\* slip: the sticky flag is not consulted
should_summarize_unflagged ==
    UsageReaches(current_tokens, summarize_threshold)

\* TokenManager.should_summarize
should_summarize ==
    ~summarization_performed /\ UsageReaches(current_tokens, summarize_threshold)

\* estimate of the prompt set_system_prompt and clear take as already counted
CountedPromptTokens(prompt) ==
    IF Truthy(prompt) THEN estimate_tokens(prompt.text) ELSE 0

\* slip: the whole new prompt is added
PromptTokenDeltaWhole(new_token_count, old_token_count) ==
    new_token_count

\* "only add the difference" of set_system_prompt
PromptTokenDelta(new_token_count, old_token_count) ==
    new_token_count - old_token_count

\* slip: off by one
TooFewMessagesOffByOne(n) == n < MinSummarizeMessages - 1

\* len(self.messages) < 6
TooFewMessages(n) == n < MinSummarizeMessages

\* slip: what the comment on that line says, "keep last 2 messages"
NumToSummarizeKeepTwo(n) == n - 2

\* num_to_summarize of maybe_summarize
NumToSummarize(n) == n - KeepRecent

\* slip: <= for <
SummaryIsNotLonger(summary_tokens, old_tokens) == summary_tokens <= old_tokens

\* "only use summary if it's actually shorter"
SummaryIsShorter(summary_tokens, old_tokens) == summary_tokens < old_tokens

\* slip: the operands swapped
TokenAdjustmentSwapped(summary_tokens, old_tokens) == old_tokens - summary_tokens

\* token_adjustment of maybe_summarize
TokenAdjustment(summary_tokens, old_tokens) == summary_tokens - old_tokens

ClearedCountersZero(prompt) ==
    [current_tokens |-> 0, warning_issued |-> FALSE]

ClearedCountersFlagDown(prompt) ==
    [current_tokens |-> CountedPromptTokens(prompt), warning_issued |-> FALSE]

\* the counters after clear: TokenManager.reset, then add_tokens of the
\* system prompt's estimate when there is a system prompt
ClearedCounters(prompt) ==
    IF Truthy(prompt)
    THEN AddTokens(0, FALSE, CountedPromptTokens(prompt))
    ELSE [current_tokens |-> 0, warning_issued |-> FALSE]

HistoryAfterSummaryReread(summary_message, recent, current, num_to_summarize) ==
    <<summary_message>> \o SubSeq(current, num_to_summarize + 1, Len(current))

\* self.messages = [summary_message] + recent_messages, where recent_messages
\* was sliced from self.messages before the await
HistoryAfterSummary(summary_message, recent, current, num_to_summarize) ==
    <<summary_message>> \o recent

RECURSIVE SumTokenCounts(_)
SumTokenCounts(msgs) ==
    IF msgs = <<>> THEN 0 ELSE Head(msgs).token_count + SumTokenCounts(Tail(msgs))

get_messages_fitted ==
    fit_messages_to_context(
        (IF Truthy(system_prompt)
         THEN <<[role |-> "system", content |-> system_prompt.text]>>
         ELSE <<>>)
        \o [i \in 1..Len(messages) |-> to_dict(messages[i])],
        usable_token_limit)

\* TokenManagedConversation.get_messages
get_messages ==
    (IF Truthy(system_prompt)
     THEN <<[role |-> "system", content |-> system_prompt.text]>>
     ELSE <<>>)
    \o [i \in 1..Len(messages) |-> to_dict(messages[i])]

get_status_usage_fraction ==
    [current_tokens |-> current_tokens,
     max_tokens |-> max_tokens,
     usage_percent |-> IF max_tokens > 0 THEN <<current_tokens, max_tokens>>
                       ELSE <<0, 1>>,
     warning_threshold |-> warning_threshold,
     summarize_threshold |-> summarize_threshold,
     warning_issued |-> warning_issued,
     summarization_performed |-> summarization_performed]

\* TokenManager.get_status; usage_percent is the fraction <<numerator, denominator>>
get_status ==
    [current_tokens |-> current_tokens,
     max_tokens |-> max_tokens,
     usage_percent |-> IF max_tokens > 0 THEN <<current_tokens * 100, max_tokens>>
                       ELSE <<0, 1>>,
     warning_threshold |-> warning_threshold,
     summarize_threshold |-> summarize_threshold,
     warning_issued |-> warning_issued,
     summarization_performed |-> summarization_performed]

----------------------------------------------------------------------------
(* Inputs of the conversation *)

MaxTokensChoices == {2000}
ThresholdChoices == {<<80, 90>>, <<90, 80>>}
Texts == {<<>>, TextOf("text", 400)}
Prompts == {<<>>, TextOf("p1", 200), TextOf("p2", 1700)}
SummaryTexts == {<<>>, TextOf("summary", 400)}
AddRoles(n) == IF n % 2 = 0 THEN {"user"} ELSE {"assistant"}

----------------------------------------------------------------------------
(* Observation of the calls *)

NoPre ==
    [messages |-> <<>>, system_prompt |-> NoPrompt, current_tokens |-> 0,
     warning_issued |-> FALSE, summarization_performed |-> FALSE, requests |-> 0]

Snapshot ==
    [messages |-> messages, system_prompt |-> system_prompt,
     current_tokens |-> current_tokens, warning_issued |-> warning_issued,
     summarization_performed |-> summarization_performed, requests |-> requests]

NoRun == [calls |-> 0, base |-> 0, replaced |-> FALSE, first |-> FALSE]

NoOut == [kind |-> "none"]

NoTurn ==
    [n |-> 0, memories |-> <<>>, summarization_occurred |-> FALSE,
     should_warn |-> FALSE, augmentations |-> <<>>]

NoCompletion == [kind |-> "none", text |-> <<>>]

NotSummarizing ==
    /\ ret' = "none"
    /\ completion' = NoCompletion
    /\ pre' = NoPre
    /\ UNCHANGED <<pc, to_summarize, recent_messages, requests>>

ConvOff ==
    /\ messages = <<>>
    /\ system_prompt = NoPrompt
    /\ client = FALSE
    /\ max_tokens = 0
    /\ warning_threshold = 0
    /\ summarize_threshold = 0
    /\ current_tokens = 0
    /\ warning_issued = FALSE
    /\ summarization_performed = FALSE
    /\ pc = "off"
    /\ to_summarize = <<>>
    /\ recent_messages = <<>>
    /\ ret = "none"
    /\ completion = NoCompletion
    /\ requests = 0
    /\ out = NoOut
    /\ successes = 0
    /\ pre = NoPre
    /\ run0 = NoRun
    /\ turn = NoTurn

----------------------------------------------------------------------------
(* Specification of the conversation.  One caller drives it and awaits     *)
(* maybe_summarize before issuing the next operation.                      *)

\* TokenManagedConversation.__init__ and TokenManager.__init__
Init ==
    /\ messages = <<>>
    /\ system_prompt = NoPrompt
    /\ client \in BOOLEAN
    /\ max_tokens \in MaxTokensChoices
    /\ \E th \in ThresholdChoices :
          warning_threshold = th[1] /\ summarize_threshold = th[2]
    /\ current_tokens = 0
    /\ warning_issued = FALSE
    /\ summarization_performed = FALSE
    /\ pc = "idle"
    /\ to_summarize = <<>>
    /\ recent_messages = <<>>
    /\ ret = "none"
    /\ completion = NoCompletion
    /\ requests = 0
    /\ out = NoOut
    /\ successes = 0
    /\ pre = NoPre
    /\ run0 = NoRun
    /\ turn = NoTurn
    /\ fit_pc = "off"
    /\ fit_in = <<>>
    /\ usable_token_limit = max_tokens - ResponseTokenBuffer
    /\ fit_out = <<>>
    /\ refit_out = <<>>

\* TokenManagedConversation.add_message
add_message(content, role) ==
    LET message == Message(content, role)
        after == AddTokens(current_tokens, warning_issued, message.token_count)
    IN  /\ pc = "idle"
        /\ Len(messages) < MaxMsgs
        /\ messages' = Append(messages, message)
        /\ current_tokens' = after.current_tokens
        /\ warning_issued' = after.warning_issued
        /\ run0' = NoRun
        /\ out' = NoOut
        /\ NotSummarizing
        /\ UNCHANGED <<system_prompt, client, max_tokens, warning_threshold,
                       summarize_threshold, summarization_performed, successes>>
        /\ UNCHANGED <<turn, fitVars>>

AddMessage ==
    \E content \in Texts : \E role \in AddRoles(Len(messages)) :
        add_message(content, role)

\* TokenManagedConversation.set_system_prompt
set_system_prompt(prompt) ==
    LET old_token_count == CountedPromptTokens(system_prompt)
        new_token_count == estimate_tokens(prompt)
        after == AddTokens(current_tokens, warning_issued,
                           PromptTokenDelta(new_token_count, old_token_count))
    IN  /\ pc = "idle"
        /\ system_prompt' = PromptOf(prompt)
        /\ current_tokens' = after.current_tokens
        /\ warning_issued' = after.warning_issued
        /\ run0' = IF run0.calls = 0
                   THEN [calls |-> 1,
                         base |-> current_tokens - CountedPromptTokens(system_prompt),
                         replaced |-> FALSE,
                         first |-> ~system_prompt.set /\ messages = <<>>]
                   ELSE [run0 EXCEPT !.calls = 2,
                                     !.replaced = Truthy(system_prompt)
                                                  /\ system_prompt.text # prompt]
        /\ out' = NoOut
        /\ NotSummarizing
        /\ UNCHANGED <<messages, client, max_tokens, warning_threshold,
                       summarize_threshold, summarization_performed, successes>>
        /\ UNCHANGED <<turn, fitVars>>

SetSystemPrompt == \E prompt \in Prompts : set_system_prompt(prompt)

\* TokenManagedConversation.get_messages
GetMessages ==
    /\ pc = "idle"
    /\ out' = [kind |-> "messages", value |-> get_messages]
    /\ run0' = NoRun
    /\ NotSummarizing
    /\ UNCHANGED <<messages, system_prompt, client, max_tokens, warning_threshold,
                   summarize_threshold, current_tokens, warning_issued,
                   summarization_performed, successes>>
    /\ UNCHANGED <<turn, fitVars>>

\* TokenManagedConversation.get_token_status
GetTokenStatus ==
    /\ pc = "idle"
    /\ out' = [kind |-> "status", value |-> get_status]
    /\ run0' = NoRun
    /\ NotSummarizing
    /\ UNCHANGED <<messages, system_prompt, client, max_tokens, warning_threshold,
                   summarize_threshold, current_tokens, warning_issued,
                   summarization_performed, successes>>
    /\ UNCHANGED <<turn, fitVars>>

\* TokenManagedConversation.clear, with TokenManager.reset
Clear ==
    LET after == ClearedCounters(system_prompt)
    IN  /\ pc = "idle"
        /\ messages' = <<>>
        /\ current_tokens' = after.current_tokens
        /\ warning_issued' = after.warning_issued
        /\ summarization_performed' = FALSE
        /\ successes' = 0
        /\ run0' = NoRun
        /\ out' = NoOut
        /\ NotSummarizing
        /\ UNCHANGED <<system_prompt, client, max_tokens, warning_threshold,
                       summarize_threshold>>
        /\ UNCHANGED <<turn, fitVars>>

PassesGuardsOnce ==
    /\ should_summarize
    /\ client
    /\ ~TooFewMessages(Len(messages))
    /\ NumToSummarize(Len(messages)) > 0
    /\ requests = 0

\* the checks of maybe_summarize before it builds the request
PassesGuards ==
    /\ should_summarize
    /\ client
    /\ ~TooFewMessages(Len(messages))
    /\ NumToSummarize(Len(messages)) > 0

\* maybe_summarize returns False from one of its guards
MaybeSummarizeReturnsEarly ==
    /\ pc = "idle"
    /\ ~PassesGuards
    /\ ret' = "false"
    /\ completion' = NoCompletion
    /\ pre' = Snapshot
    /\ run0' = NoRun
    /\ out' = NoOut
    /\ UNCHANGED <<messages, system_prompt, client, max_tokens, warning_threshold,
                   summarize_threshold, current_tokens, warning_issued,
                   summarization_performed, pc, to_summarize, recent_messages,
                   requests, successes>>
    /\ UNCHANGED <<turn, fitVars>>

\* maybe_summarize up to "await self.client.complete(...)"
MaybeSummarizeRequests ==
    LET num_to_summarize == NumToSummarize(Len(messages))
    IN  /\ pc = "idle"
        /\ PassesGuards
        /\ requests < MaxRequests
        /\ to_summarize' = SubSeq(messages, 1, num_to_summarize)
        /\ recent_messages' = SubSeq(messages, num_to_summarize + 1, Len(messages))
        /\ requests' = requests + 1
        /\ pc' = "awaiting"
        /\ ret' = "pending"
        /\ completion' = [kind |-> "pending", text |-> <<>>]
        /\ pre' = Snapshot
        /\ run0' = NoRun
        /\ out' = NoOut
        /\ UNCHANGED <<messages, system_prompt, client, max_tokens, warning_threshold,
                       summarize_threshold, current_tokens, warning_issued,
                       summarization_performed, successes>>
        /\ UNCHANGED <<turn, fitVars>>

\* the completion call raises: the except clause, then "return False"
CompletionRaises ==
    /\ pc = "awaiting"
    /\ pc' = "idle"
    /\ ret' = "false"
    /\ completion' = [kind |-> "raised", text |-> <<>>]
    /\ to_summarize' = <<>>
    /\ recent_messages' = <<>>
    /\ UNCHANGED <<messages, system_prompt, client, max_tokens, warning_threshold,
                   summarize_threshold, current_tokens, warning_issued,
                   summarization_performed, requests, out, successes, pre, run0>>
    /\ UNCHANGED <<turn, fitVars>>

\* the completion call returns summary_text: the rest of maybe_summarize
completion_returns(summary_text) ==
    LET old_tokens == SumTokenCounts(to_summarize)
        summary_tokens == estimate_tokens(summary_text)
        summary_message == SummaryMessage(summary_text, summary_tokens)
    IN  /\ pc = "awaiting"
        /\ pc' = "idle"
        /\ completion' = [kind |-> "returned", text |-> summary_text]
        /\ to_summarize' = <<>>
        /\ recent_messages' = <<>>
        /\ IF SummaryIsShorter(summary_tokens, old_tokens)
           THEN /\ messages' = HistoryAfterSummary(summary_message, recent_messages,
                                                   messages, Len(to_summarize))
                /\ current_tokens' =
                       current_tokens + TokenAdjustment(summary_tokens, old_tokens)
                /\ summarization_performed' = TRUE
                /\ successes' = successes + 1
                /\ ret' = "true"
           ELSE /\ ret' = "false"
                /\ UNCHANGED <<messages, current_tokens, summarization_performed,
                               successes>>
        /\ UNCHANGED <<system_prompt, client, max_tokens, warning_threshold,
                       summarize_threshold, warning_issued, requests, out, pre, run0>>
        /\ UNCHANGED <<turn, fitVars>>

CompletionReturns == \E summary_text \in SummaryTexts : completion_returns(summary_text)

Next ==
    \/ AddMessage
    \/ SetSystemPrompt
    \/ GetMessages
    \/ GetTokenStatus
    \/ Clear
    \/ MaybeSummarizeReturnsEarly
    \/ MaybeSummarizeRequests
    \/ CompletionRaises
    \/ CompletionReturns

Spec == Init /\ [][Next]_vars

----------------------------------------------------------------------------
(* Claims about the conversation *)

\* the messages maybe_summarize was to summarize, and to keep, at its entry
PreBlock == SubSeq(pre.messages, 1, Len(pre.messages) - 4)
PreKept == SubSeq(pre.messages, Len(pre.messages) - 3, Len(pre.messages))

\* the history is one synthetic summary message, then the last 4 messages
\* the call found
SummarizedShape ==
    /\ Len(messages) = 5
    /\ messages[1].role = "system"
    /\ messages[1].content = Concat(Concat(SummaryOpen, completion.text), SummaryClose)
    /\ SubSeq(messages, 2, 5) = PreKept

\* the conversation is as the call found it
SameAsPre ==
    /\ messages = pre.messages
    /\ system_prompt = pre.system_prompt
    /\ current_tokens = pre.current_tokens
    /\ warning_issued = pre.warning_issued
    /\ summarization_performed = pre.summarization_performed

\* the completion call returned a summary that is not strictly smaller than
\* the block it summarizes
SummaryNotSmaller ==
    /\ completion.kind = "returned"
    /\ TokenLen(completion.text) >= SumTokenCounts(PreBlock)

C4_FailedSummarizeChangesNothing ==
    (completion.kind = "raised" \/ SummaryNotSmaller)
    => (ret = "false" /\ pc = "idle" /\ SameAsPre)

C4_Witness ==
    /\ SummaryNotSmaller
    /\ ret = "false"
    /\ TokenLen(completion.text) = SumTokenCounts(PreBlock)
    /\ completion.text # <<>>

\* C5: between construction or the latest clear() and the next clear(),
\* maybe_summarize returns true at most once; a maybe_summarize called with
\* summarization_performed set returns false and issues no completion
\* request, whatever the token usage.
C5_SummarizeOnce ==
    /\ successes <= 1
    /\ (ret # "none" /\ pre.summarization_performed)
       => (ret = "false" /\ completion.kind = "none" /\ requests = pre.requests)

C5_Witness ==
    /\ ret = "false"
    /\ pre.summarization_performed
    /\ successes = 1
    /\ client
    /\ Len(messages) >= 6
    /\ current_tokens * 100 >= summarize_threshold * max_tokens

\* C6: maybe_summarize returns false at once, issuing no completion request
\* and changing nothing, whenever usage is below the summarize threshold,
\* summarization_performed is set, no completion client is configured, or the
\* history has fewer than 6 messages.
C6_GuardsReturnFalse ==
    (ret # "none"
        /\ \/ pre.current_tokens * 100 < summarize_threshold * max_tokens
           \/ pre.summarization_performed
           \/ ~client
           \/ Len(pre.messages) < 6)
    => (ret = "false" /\ completion.kind = "none" /\ pc = "idle"
        /\ requests = pre.requests /\ SameAsPre)

\* three exchanges and a system prompt below the threshold: the count stays 6
C6_Witness ==
    /\ ret = "false"
    /\ client
    /\ ~summarization_performed
    /\ Truthy(system_prompt)
    /\ Len(messages) = 6
    /\ current_tokens * 100 < summarize_threshold * max_tokens
    /\ current_tokens > 0

\* C7: whenever maybe_summarize returns true, current_tokens right after the
\* call is strictly smaller than current_tokens right before it.
C7_SummarizeShrinks ==
    ret = "true" => current_tokens < pre.current_tokens

C7_Witness ==
    /\ ret = "true"
    /\ completion.text # <<>>
    /\ Truthy(system_prompt)

\* C8: over add_message, set_system_prompt, get_messages, get_token_status
\* and maybe_summarize, warning_issued never goes from true to false; only a
\* clear() step un-sets it.
C8_WarningMonotone ==
    [][(warning_issued /\ ~warning_issued') => Clear]_vars

\* the flag stays set although usage fell back below the warning threshold
C8_Witness ==
    /\ warning_issued
    /\ messages # <<>>
    /\ current_tokens * 100 < warning_threshold * max_tokens

\* C9: after set_system_prompt(P1) directly followed by set_system_prompt(P2),
\* current_tokens is what set_system_prompt(P2) alone would have left: the
\* tokens other than the prompt's plus the estimate of P2.
C9_PromptDeltaOnly ==
    run0.calls = 2 =>
        current_tokens = run0.base + TokenLen(system_prompt.text)

C9_Witness ==
    /\ run0.calls = 2
    /\ run0.replaced
    /\ messages # <<>>

\* C10, as claimed: the thresholds are fractions of the usable ceiling
\* max_tokens - response_token_buffer: the warning flag is set as soon as
\* current_tokens >= warning_threshold * (max_tokens - response_token_buffer).
C10_AsClaimed ==
    current_tokens * 100 >= warning_threshold * (max_tokens - ResponseTokenBuffer)
        => warning_issued

\* C10, amended: the thresholds are fractions of raw max_tokens; the response
\* buffer plays no part.  The warning flag is set whenever
\* current_tokens >= warning_threshold * max_tokens, and a maybe_summarize
\* call on a conversation with a client, at least 6 messages and
\* summarization not yet performed issues its completion request exactly
\* when current_tokens >= summarize_threshold * max_tokens.
C10_ThresholdsOfMaxTokens ==
    /\ current_tokens * 100 >= warning_threshold * max_tokens => warning_issued
    /\ completion.kind # "none"
       => pre.current_tokens * 100 >= summarize_threshold * max_tokens
    /\ (ret = "false" /\ completion.kind = "none" /\ client
           /\ Len(pre.messages) >= 6 /\ ~pre.summarization_performed)
       => pre.current_tokens * 100 < summarize_threshold * max_tokens

\* between the two readings of the thresholds: no warning, no request
C10_Witness ==
    /\ ret = "false"
    /\ completion.kind = "none"
    /\ client
    /\ Len(messages) >= 6
    /\ ~warning_issued
    /\ ~summarization_performed
    /\ current_tokens * 100 >= summarize_threshold * (max_tokens - ResponseTokenBuffer)
    /\ current_tokens * 100 < warning_threshold * max_tokens

\* the token estimate of the system prompt, 0 when none is set
PromptEstimate(prompt) == IF prompt.set THEN estimate_tokens(prompt.text) ELSE 0

\* the last call that changed the conversation was clear(), and it followed a
\* completion request, so a history of at least 6 messages was dropped
AfterClear ==
    /\ pc = "idle"
    /\ messages = <<>>
    /\ requests > 0
    /\ run0 = NoRun

\* C13: clear() drops every message of the history, keeps the system prompt
\* and leaves current_tokens equal to exactly the system prompt's token
\* estimate (0 when no system prompt is set), whatever preceded it.
C13_ClearKeepsPromptOnly ==
    [][Clear => /\ messages' = <<>>
                /\ system_prompt' = system_prompt
                /\ current_tokens' = PromptEstimate(system_prompt)]_vars

C13_Witness ==
    /\ AfterClear
    /\ Truthy(system_prompt)
    /\ current_tokens = PromptEstimate(system_prompt)
    /\ current_tokens > 0

\* C14 as claimed: immediately after clear() returns, warning_issued and
\* summarization_performed are both false, for every prior state and every
\* system prompt.
C14_AsClaimed ==
    [][Clear => (~warning_issued' /\ ~summarization_performed')]_vars

\* C14: immediately after clear() returns, summarization_performed is false,
\* and warning_issued is false unless the system prompt's tokens alone reach
\* the warning threshold; in that case warning_issued is true.
C14_ClearResetsFlags ==
    [][Clear => /\ ~summarization_performed'
                /\ warning_issued' =
                       (PromptEstimate(system_prompt) * 100
                           >= warning_threshold * max_tokens)]_vars

\* a clear() of a long history, under a system prompt whose tokens alone
\* reach the warning threshold
C14_Witness ==
    /\ AfterClear
    /\ successes = 0
    /\ ~summarization_performed
    /\ warning_issued
    /\ PromptEstimate(system_prompt) * 100 >= warning_threshold * max_tokens

\* C15: get_messages returns the system prompt, when one is set (a non-empty
\* text), as the first element with role system, followed by the whole
\* history in order as role/content pairs, so its length is the length of the
\* history plus 1 if a prompt is set; nothing is fitted, dropped or truncated
\* and the state of the conversation does not change.
C15_GetMessagesWhole ==
    [][out'.kind = "messages" =>
         LET value == out'.value
             off == IF system_prompt.set /\ system_prompt.text # <<>> THEN 1 ELSE 0
         IN  /\ Len(value) = Len(messages) + off
             /\ off = 1 => value[1] = [role |-> "system",
                                        content |-> system_prompt.text]
             /\ \A i \in 1..Len(messages) :
                    value[i + off] = [role |-> messages[i].role,
                                      content |-> messages[i].content]
             /\ UNCHANGED <<messages, system_prompt, client, max_tokens,
                            warning_threshold, summarize_threshold,
                            current_tokens, warning_issued,
                            summarization_performed>>]_vars

\* get_messages on a conversation with a system prompt and a history larger
\* than the usable limit, which the fitter would have cut
C15_Witness ==
    /\ out.kind = "messages"
    /\ Truthy(system_prompt)
    /\ Len(messages) = MaxMsgs
    /\ Len(out.value) = MaxMsgs + 1
    /\ count_messages_tokens(out.value) > usable_token_limit

\* C16 as claimed: get_token_status on a conversation with no history
\* reports current_tokens equal to the system prompt's token count T (0
\* without a prompt), usage_percent equal to T / max_tokens * 100, and both
\* sticky flags false.
C16_AsClaimed ==
    (out.kind = "status" /\ messages = <<>>)
    => /\ out.value.current_tokens = PromptEstimate(system_prompt)
       /\ out.value.usage_percent = <<PromptEstimate(system_prompt) * 100, max_tokens>>
       /\ ~out.value.warning_issued
       /\ ~out.value.summarization_performed

\* C16: get_token_status on a conversation with no history reports
\* current_tokens equal to the system prompt's token count T (0 without a
\* prompt), usage_percent equal to T / max_tokens * 100 and
\* summarization_performed false; warning_issued is true when T reaches the
\* warning threshold, false when no system prompt was ever set, and false on a
\* new conversation given one system prompt with T below the threshold.
C16_StatusWithoutHistory ==
    [][(out'.kind = "status" /\ messages = <<>>) =>
         LET T == PromptEstimate(system_prompt)
             reaches == T * 100 >= warning_threshold * max_tokens
         IN  /\ out'.value.current_tokens = T
             /\ out'.value.usage_percent = <<T * 100, max_tokens>>
             /\ ~out'.value.summarization_performed
             /\ reaches => out'.value.warning_issued
             /\ ~system_prompt.set => ~out'.value.warning_issued
             /\ (run0.calls = 1 /\ run0.first /\ ~reaches)
                    => ~out'.value.warning_issued]_vars

\* the status of a conversation that has only a system prompt, below the
\* warning threshold
C16_Witness ==
    /\ out.kind = "status"
    /\ messages = <<>>
    /\ requests = 0
    /\ Truthy(system_prompt)
    /\ out.value.current_tokens = PromptEstimate(system_prompt)
    /\ out.value.current_tokens > 0
    /\ ~out.value.warning_issued

\* the message is the synthetic summary built by maybe_summarize
IsSummaryMessage(message) ==
    \E text \in SummaryTexts :
        message.content = Concat(Concat(SummaryOpen, text), SummaryClose)

\* C18 as claimed: every Message of the history carries a cached token count
\* made of its content's estimate plus a fixed positive per-message overhead,
\* the synthetic summary Message included (from its wrapped content).
C18_AsClaimed ==
    \A i \in 1..Len(messages) :
        messages[i].token_count > estimate_tokens(messages[i].content)

\* C18: every Message carries a cached token count fixed at creation, the
\* token estimate of its content alone with no per-message overhead, so each
\* add_message raises current_tokens by exactly the content's estimate (0 for
\* empty content); the synthetic summary Message's cached count is the
\* estimate of the bare summary text, not of its wrapped content.
C18_CachedCountIsContentEstimate ==
    /\ [](\A i \in 1..Len(messages) :
            messages[i].token_count =
                IF IsSummaryMessage(messages[i])
                THEN estimate_tokens(messages[i].content)
                         - SummaryOpenTokens - SummaryCloseTokens
                ELSE estimate_tokens(messages[i].content))
    /\ [][Len(messages') = Len(messages) + 1 =>
            current_tokens' = current_tokens
                + estimate_tokens(messages'[Len(messages')].content)]_vars

\* a history holding the summary message, a message without content and a
\* message with content
C18_Witness ==
    /\ Len(messages) = KeepRecent + 1
    /\ IsSummaryMessage(messages[1])
    /\ messages[1].token_count > 0
    /\ \E i \in 2..Len(messages) : messages[i].content = <<>>
    /\ \E i \in 2..Len(messages) : messages[i].token_count > 0

\* C24: every conversation has 0 < warning_threshold < summarize_threshold
\* < 1.0 (thresholds in percent here): construction never yields thresholds
\* that violate this ordering.
C24_ThresholdsOrdered ==
    /\ 0 < warning_threshold
    /\ warning_threshold < summarize_threshold
    /\ summarize_threshold < 100

\* usage has reached the warning threshold
UsageAtWarning == current_tokens * 100 >= warning_threshold * max_tokens

\* usage has reached the summarize threshold
UsageAtSummarize == current_tokens * 100 >= summarize_threshold * max_tokens

\* current_tokens / max_tokens >= warning_threshold implies warning_issued
WarningSound == (0 < warning_threshold /\ UsageAtWarning) => warning_issued

\* C27: for a conversation with 0 < warning_threshold, in every state reached
\* by add_message, set_system_prompt, clear and maybe_summarize, usage at or
\* above the warning threshold implies warning_issued; hence whenever
\* summarization is eligible the warning has already been issued.
C27_WarningBeforeSummarize ==
    0 < warning_threshold =>
        /\ UsageAtWarning => warning_issued
        /\ (UsageAtSummarize /\ ~summarization_performed) => warning_issued

\* C26: after any sequence of add_message, set_system_prompt, clear and
\* maybe_summarize (successful or failed), each awaited before the next,
\* current_tokens equals the token estimate of the current system prompt (0
\* if unset) plus the sum of the cached token_count of every message of the
\* history; current_tokens is never negative.
C26_Accounting ==
    /\ current_tokens = PromptEstimate(system_prompt) + SumTokenCounts(messages)
    /\ current_tokens >= 0

\* after a successful summarization, a replaced system prompt and one more
\* message
C26_Witness ==
    /\ successes = 1
    /\ Len(messages) = KeepRecent + 2
    /\ IsSummaryMessage(messages[1])
    /\ run0.replaced
    /\ Truthy(system_prompt)
    /\ current_tokens = PromptEstimate(system_prompt) + SumTokenCounts(messages)
    /\ current_tokens > PromptEstimate(system_prompt)

\* summarization is due: not yet performed, usage at or above the summarize
\* threshold, a client and at least 6 messages
SummarizationDue ==
    /\ ~summarization_performed
    /\ UsageAtSummarize
    /\ client
    /\ Len(messages) >= MinSummarizeMessages

\* C29: a failed summarization is retried without bound.  Each
\* maybe_summarize call that passes the guards issues exactly one completion
\* request; when the attempt fails (exception or summary not shorter)
\* summarization_performed stays false and summarization is still due, and a
\* maybe_summarize call made while it is due never returns without issuing
\* another request, however many attempts have failed.
C29_FailedSummarizeRetried ==
    /\ [][
           /\ (pc = "idle" /\ pc' = "awaiting")
                => (SummarizationDue /\ requests' = requests + 1)
           /\ (pc = "awaiting" /\ pc' = "idle")
                => requests' = requests
           /\ (pc = "awaiting" /\ pc' = "idle" /\ ret' = "false")
                => (~summarization_performed' /\ SummarizationDue')
           /\ (pc = "idle" /\ pc' = "idle" /\ ret' = "false")
                => ~SummarizationDue
         ]_vars
    /\ []((pc = "idle" /\ SummarizationDue /\ requests < MaxRequests)
            => ENABLED MaybeSummarizeRequests)

\* MaxRequests attempts have failed in a row, the last one just now, and
\* summarization is still due
C29_Witness ==
    /\ pc = "idle"
    /\ requests = MaxRequests
    /\ successes = 0
    /\ ret = "false"
    /\ completion.kind \in {"raised", "returned"}
    /\ pre.requests = MaxRequests - 1
    /\ ~pre.summarization_performed
    /\ SummarizationDue

----------------------------------------------------------------------------
(* Specification of a caller that does not await maybe_summarize: it may    *)
(* add a message while the completion call is in flight.                    *)

\* TokenManagedConversation.add_message, run at the suspension point of
\* maybe_summarize
AddMessageInFlight ==
    \E content \in Texts : \E role \in AddRoles(Len(messages)) :
        LET message == Message(content, role)
            after == AddTokens(current_tokens, warning_issued, message.token_count)
        IN  /\ pc = "awaiting"
            /\ Len(messages) < MaxMsgs
            /\ Len(messages) - Len(pre.messages) < MaxInFlight
            /\ messages' = Append(messages, message)
            /\ current_tokens' = after.current_tokens
            /\ warning_issued' = after.warning_issued
            /\ UNCHANGED <<system_prompt, client, max_tokens, warning_threshold,
                           summarize_threshold, summarization_performed, pc,
                           to_summarize, recent_messages, ret, completion,
                           requests, out, successes, pre, run0>>
            /\ UNCHANGED <<turn, fitVars>>

InterleavedNext == Next \/ AddMessageInFlight

SpecInterleaved == Init /\ [][InterleavedNext]_vars

\* the messages added since maybe_summarize took its snapshot
AddedInFlight == SubSeq(messages, Len(pre.messages) + 1, Len(messages))

\* C28: nothing guards the suspension point of maybe_summarize.  An
\* add_message run while the completion call is in flight is accepted; when
\* the summarization then succeeds, the history is the summary followed by
\* the 4 messages kept at the snapshot, the message added in flight is absent
\* from it, and its tokens remain in current_tokens.
C28_InFlightAddLost ==
    [][(pc = "awaiting" /\ pc' = "idle" /\ ret' = "true") =>
          /\ Len(messages') = KeepRecent + 1
          /\ IsSummaryMessage(messages'[1])
          /\ SubSeq(messages', 2, KeepRecent + 1) = PreKept
          /\ current_tokens' = PromptEstimate(system_prompt')
                                   + SumTokenCounts(messages')
                                   + SumTokenCounts(AddedInFlight)]_vars

\* a successful summarization has just dropped a message of 400 tokens that
\* was added in flight: current_tokens is 400 above what the history holds
C28_Witness ==
    /\ pc = "idle"
    /\ ret = "true"
    /\ successes = 1
    /\ Len(messages) = KeepRecent + 1
    /\ current_tokens
          = PromptEstimate(system_prompt) + SumTokenCounts(messages)
              + TokenLen(TextOf("text", 400))

----------------------------------------------------------------------------
(* Specification of the fitter: fit an input, then fit the result again *)


\* TokenManager.__init__ and the arguments of fit_messages_to_context
FitInit ==
    /\ ConvOff
    /\ fit_pc = "input"
    /\ \E n \in 0..MaxFitMsgs : \E sh \in FitShapes(n) : fit_in = FitInput(sh)
    /\ usable_token_limit \in FitLimits
    /\ fit_out = <<>>
    /\ refit_out = <<>>

Fit ==
    /\ fit_pc = "input"
    /\ fit_pc' = "fitted"
    /\ fit_out' = fit_messages_to_context(fit_in, usable_token_limit)
    /\ fit_in' = InputAfterFit(fit_in, usable_token_limit)
    /\ UNCHANGED <<usable_token_limit, refit_out>>
    /\ UNCHANGED convVars

Refit ==
    /\ fit_pc = "fitted"
    /\ fit_pc' = "refitted"
    /\ refit_out' = fit_messages_to_context(fit_out, usable_token_limit)
    /\ fit_out' = InputAfterFit(fit_out, usable_token_limit)
    /\ UNCHANGED <<fit_in, usable_token_limit>>
    /\ UNCHANGED convVars

FitNext == Fit \/ Refit

SpecFit == FitInit /\ [][FitNext]_vars

----------------------------------------------------------------------------
(* Specification of the truncation of one message to a budget *)

TruncInit ==
    /\ ConvOff
    /\ fit_pc = "message"
    /\ \E kind \in FitKinds : \E len \in TruncLens :
          fit_in = <<[role |-> FitRole(kind, 1), content |-> TextOf("m1", len)]>>
    /\ usable_token_limit \in TruncTargets
    /\ fit_out = <<>>
    /\ refit_out = <<>>

Truncate ==
    /\ fit_pc = "message"
    /\ fit_pc' = "truncated"
    /\ fit_out' = <<TruncateMessageContent(fit_in[1], usable_token_limit)>>
    /\ fit_in' = <<MessageAfterTruncation(fit_in[1], usable_token_limit)>>
    /\ UNCHANGED <<usable_token_limit, refit_out>>
    /\ UNCHANGED convVars

TruncNext == Truncate

SpecTruncate == TruncInit /\ [][TruncNext]_vars

----------------------------------------------------------------------------
(* Specification of the token counter: count a list of messages *)

CountInit ==
    /\ ConvOff
    /\ fit_pc = "messages"
    /\ \E n \in 0..MaxCountMsgs : fit_in \in [1..n -> CountMessages]
    /\ usable_token_limit = 0
    /\ fit_out = <<>>
    /\ refit_out = <<>>

\* count_message_tokens of each message, and count_messages_tokens of the list
Count ==
    /\ fit_pc = "messages"
    /\ fit_pc' = "counted"
    /\ out' = [kind |-> "count",
               value |-> [each |-> [i \in 1..Len(fit_in) |->
                                       count_message_tokens(fit_in[i])],
                          total |-> count_messages_tokens(fit_in)]]
    /\ UNCHANGED <<messages, system_prompt, client, max_tokens, warning_threshold,
                   summarize_threshold, current_tokens, warning_issued,
                   summarization_performed, pc, to_summarize, recent_messages,
                   ret, completion, requests, successes, pre, run0, turn>>
    /\ UNCHANGED <<fit_in, usable_token_limit, fit_out, refit_out>>

CountNext == Count

SpecCount == CountInit /\ [][CountNext]_vars

\* the sum of a sequence of numbers
RECURSIVE SumOf(_)
SumOf(numbers) == IF numbers = <<>> THEN 0 ELSE Head(numbers) + SumOf(Tail(numbers))

----------------------------------------------------------------------------
(* Claims about the context fitter *)

\* the returned sequence is one message whose content is the fixed placeholder
IsForcedPlaceholder(result) == Len(result) = 1 /\ result[1].content = Placeholder

\* C1: safety of the context fitter.  For every input and every usable
\* ceiling >= 0 the result of fit_messages_to_context either has an estimated
\* token count (count_messages_tokens, priming constant included) of at most
\* the ceiling, or is a single forced-placeholder message.  (An empty result
\* is counted as fitting.)
C1_FitterSafety ==
    fit_pc \in {"fitted", "refitted"} =>
        \/ fit_out = <<>>
        \/ count_messages_tokens(fit_out) <= usable_token_limit
        \/ IsForcedPlaceholder(fit_out)

\* C2: idempotence of the context fitter.  Fitting the result of
\* fit_messages_to_context again, to the same ceiling, returns the identical
\* sequence: same messages, same contents, same order.
C2_FitterIdempotent ==
    fit_pc = "refitted" => refit_out = fit_out

\* system_messages + recent, the messages the fitter always wants to keep
FixedMessages(msgs) ==
    SelectSeq(msgs, IsSystem) \o LastN(SelectSeq(msgs, IsRegular), PreserveRecent)

\* C11: whenever the token count of the system messages plus the last
\* PreserveRecent regular messages does not exceed the ceiling, equality
\* included, the last-resort branch is not taken and the regular messages of
\* the result end with exactly those last PreserveRecent regular messages,
\* verbatim and in order.
C11_RecentKeptUpToCeiling ==
    (/\ fit_pc \in {"fitted", "refitted"}
     /\ fit_in # <<>>
     /\ count_messages_tokens(FixedMessages(fit_in)) <= usable_token_limit)
    => /\ ~Degraded(fit_in, usable_token_limit)
       /\ LastN(SelectSeq(fit_out, IsRegular), PreserveRecent)
              = LastN(SelectSeq(fit_in, IsRegular), PreserveRecent)

\* C12: on every input for which the last-resort branch is not taken, the
\* system messages of the result are exactly the system messages of the
\* input, unmodified and in the same relative order.
C12_SystemMessagesKept ==
    (/\ fit_pc \in {"fitted", "refitted"}
     /\ ~Degraded(fit_in, usable_token_limit))
    => SelectSeq(fit_out, IsSystem) = SelectSeq(fit_in, IsSystem)

\* an input too large for the ceiling, with a system message after its oldest
\* regular message, fitted by dropping or truncating that oldest message
C12_Witness ==
    /\ fit_pc = "fitted"
    /\ ~Degraded(fit_in, usable_token_limit)
    /\ fit_out # fit_in
    /\ SelectSeq(fit_in, IsSystem) # <<>>
    /\ ~IsSystem(fit_in[1])
    /\ SelectSeq(fit_out, IsSystem) = SelectSeq(fit_in, IsSystem)

\* regular_messages[:-preserve_recent_messages]
OlderMessages(msgs) == AllButLastN(SelectSeq(msgs, IsRegular), PreserveRecent)

\* usable_token_limit - fixed_tokens
RemainingBudget(msgs, limit) == limit - count_messages_tokens(FixedMessages(msgs))

\* there are older messages and none of them fits what the fixed messages leave
NoOlderFits(msgs, limit) ==
    /\ OlderMessages(msgs) # <<>>
    /\ \A i \in 1..Len(OlderMessages(msgs)) :
           count_message_tokens(OlderMessages(msgs)[i]) > RemainingBudget(msgs, limit)

\* C17 as claimed: when the system messages and the last 4 regular messages
\* fit the ceiling and no older message fits, the result is the system
\* messages followed by exactly the last 4 regular messages, and no older
\* message appears in it, whole or truncated.  (Stated for the histories
\* whose fixed messages stay strictly below the ceiling; the claim covers
\* them, and the histories that meet the ceiling exactly are those of C11.)
C17_AsClaimed ==
    (/\ fit_pc \in {"fitted", "refitted"}
     /\ NoOlderFits(fit_in, usable_token_limit)
     /\ RemainingBudget(fit_in, usable_token_limit) > 0)
    => fit_out = FixedMessages(fit_in)

\* C17: when the system messages and the last 4 regular messages leave a
\* remaining budget of 1 to MinTruncateSpace tokens and no older message
\* fits it, the result is the system messages followed by exactly the last 4
\* regular messages in original order; no older message appears in it,
\* whole or truncated.
C17_OnlyFixedKept ==
    (/\ fit_pc \in {"fitted", "refitted"}
     /\ NoOlderFits(fit_in, usable_token_limit)
     /\ RemainingBudget(fit_in, usable_token_limit) > 0
     /\ RemainingBudget(fit_in, usable_token_limit) <= MinTruncateSpace)
    => fit_out = FixedMessages(fit_in)

\* one system message and five regular ones; the oldest regular message has
\* content, does not fit the remaining budget, and has been dropped
C17_Witness ==
    /\ fit_pc = "fitted"
    /\ Len(fit_in) = 6
    /\ Len(SelectSeq(fit_in, IsSystem)) = 1
    /\ NoOlderFits(fit_in, usable_token_limit)
    /\ OlderMessages(fit_in)[1].content # <<>>
    /\ RemainingBudget(fit_in, usable_token_limit) > 0
    /\ RemainingBudget(fit_in, usable_token_limit) <= MinTruncateSpace
    /\ Len(fit_out) = 5
    /\ fit_out = FixedMessages(fit_in)

\* system_messages + recent[-2:], what the last-resort branch starts from
LastResortKept(msgs) ==
    SelectSeq(msgs, IsSystem)
        \o LastN(LastN(SelectSeq(msgs, IsRegular), PreserveRecent), LastResortRecent)

\* C19: in the last-resort branch the result keeps every system message and
\* the last 2 recent messages; content is truncated from the oldest kept
\* message on, so no system message is missing from the result and the newest
\* message is shortened only when every older kept message is shortened too.
C19_DegradedKeepsSystem ==
    (/\ fit_pc \in {"fitted", "refitted"}
     /\ Degraded(fit_in, usable_token_limit))
    => LET kept == LastResortKept(fit_in)
       IN  /\ Len(fit_out) = Len(kept)
           /\ \A i \in 1..Len(kept) : fit_out[i].role = kept[i].role
           /\ (fit_out[Len(kept)] # kept[Len(kept)]
                  => \A i \in 1..Len(kept) : fit_out[i] # kept[i])

\* content_token_limit of _truncate_message_content for this message
AllowedContentTokens(message, target) ==
    target - count_message_tokens([message EXCEPT !.content = <<>>])

\* the content is a token prefix of the original followed by the notice
IsPrefixWithNotice(content, original) ==
    \E k \in 0..TokenLen(original) :
        content = Concat(TakeTokens(original, k), TruncationNotice)

\* C20: truncating one message to a target budget, with allowed = target
\* minus the role and format overhead: when allowed <= 0 the content is the
\* fixed placeholder; for every allowed > 0, allowed < NoticeHeadroom
\* included, the content is the original, or a token prefix of it followed by
\* the truncation notice, and the message's token count is at most the target.
C20_TruncationWithinTarget ==
    fit_pc = "truncated" =>
        LET message == fit_in[1]
            result == fit_out[1]
            allowed == AllowedContentTokens(message, usable_token_limit)
        IN  IF allowed <= 0
            THEN result = [message EXCEPT !.content = Placeholder]
            ELSE /\ result.role = message.role
                 /\ \/ result.content = message.content
                    \/ IsPrefixWithNotice(result.content, message.content)
                 /\ count_message_tokens(result) <= usable_token_limit

\* the input is too large and the fixed messages leave room: the loop over
\* the older messages runs
GreedyPath(msgs, limit) ==
    /\ msgs # <<>>
    /\ count_messages_tokens(msgs) > limit
    /\ ~Degraded(msgs, limit)

\* included_older_messages, read off the result: what stands between the
\* system messages and the recent messages
IncludedOlder(result, msgs) ==
    SubSeq(result,
           Len(SelectSeq(msgs, IsSystem)) + 1,
           Len(result) - Len(LastN(SelectSeq(msgs, IsRegular), PreserveRecent)))

\* how many of the newest older messages fit the budget together, whole
WholeRunLength(older, budget) ==
    CHOOSE n \in 0..Len(older) :
        /\ SumMessageTokens(LastN(older, n)) <= budget
        /\ n < Len(older) => SumMessageTokens(LastN(older, n + 1)) > budget

\* the content is one that _truncate_message_content makes of the original:
\* a token prefix of it followed by the notice
IsTruncationOf(content, original) ==
    LET k == TokenLen(content) - NoticeTokens
    IN  /\ k >= 0
        /\ k <= TokenLen(original)
        /\ content = Concat(TakeTokens(original, k), TruncationNotice)

\* C21: when the loop over the older messages runs, they are taken newest
\* first as one contiguous run: whole messages while each fits the remaining
\* budget; the first message that does not fit is included truncated if the
\* remaining budget is more than MinTruncateSpace tokens and omitted
\* otherwise, and no message older than it is included, even one that fits.
C21_OlderTakenAsOneRun ==
    (/\ fit_pc \in {"fitted", "refitted"}
     /\ GreedyPath(fit_in, usable_token_limit))
    => LET older == OlderMessages(fit_in)
           budget == RemainingBudget(fit_in, usable_token_limit)
           n == WholeRunLength(older, budget)
           left == budget - SumMessageTokens(LastN(older, n))
           included == IncludedOlder(fit_out, fit_in)
       IN  /\ Len(fit_out) >= Len(FixedMessages(fit_in))
           /\ IF n = Len(older) THEN included = older
              ELSE IF left > MinTruncateSpace
              THEN /\ Len(included) = n + 1
                   /\ included[1].role = older[Len(older) - n].role
                   /\ IsTruncationOf(included[1].content,
                                     older[Len(older) - n].content)
                   /\ count_message_tokens(included[1]) <= left
                   /\ SubSeq(included, 2, n + 1) = LastN(older, n)
              ELSE included = LastN(older, n)

\* the newest older message does not fit and is included truncated; the
\* message before it would fit the budget and is left out
C21_Witness ==
    /\ fit_pc = "fitted"
    /\ GreedyPath(fit_in, usable_token_limit)
    /\ Len(OlderMessages(fit_in)) = 2
    /\ RemainingBudget(fit_in, usable_token_limit) > MinTruncateSpace
    /\ count_message_tokens(OlderMessages(fit_in)[1])
           <= RemainingBudget(fit_in, usable_token_limit)
    /\ count_message_tokens(OlderMessages(fit_in)[2])
           > RemainingBudget(fit_in, usable_token_limit)
    /\ Len(IncludedOlder(fit_out, fit_in)) = 1
    /\ IsTruncationOf(IncludedOlder(fit_out, fit_in)[1].content,
                      OlderMessages(fit_in)[2].content)

\* the message of the result is the input message, whole or truncated
IsKeptFrom(kept, message) ==
    /\ kept.role = message.role
    /\ \/ kept.content = message.content
       \/ kept.content = Placeholder
       \/ IsTruncationOf(kept.content, message.content)

\* the messages of kept are messages of msgs, whole or truncated, in the
\* order they have in msgs
RECURSIVE KeptInOrder(_, _)
KeptInOrder(kept, msgs) ==
    IF kept = <<>> THEN TRUE
    ELSE IF msgs = <<>> THEN FALSE
    ELSE \/ IsKeptFrom(Head(kept), Head(msgs)) /\ KeptInOrder(Tail(kept), Tail(msgs))
         \/ KeptInOrder(kept, Tail(msgs))

\* C22: whenever the result differs from the input, it is ordered as the kept
\* system messages in their original relative order, then the surviving
\* non-system messages in their original (chronological) order: every system
\* message precedes every non-system message, even if it was interleaved in
\* the input.
C22_SystemFirstOrderKept ==
    (/\ fit_pc \in {"fitted", "refitted"}
     /\ fit_out # fit_in)
    => /\ \A i, j \in 1..Len(fit_out) :
              (IsSystem(fit_out[j]) /\ IsRegular(fit_out[i])) => j < i
       /\ KeptInOrder(SelectSeq(fit_out, IsSystem), SelectSeq(fit_in, IsSystem))
       /\ KeptInOrder(SelectSeq(fit_out, IsRegular), SelectSeq(fit_in, IsRegular))

\* an input with a system message after its first regular message, changed
\* by the fitter: the system message has moved to the front
C22_Witness ==
    /\ fit_pc = "fitted"
    /\ fit_out # fit_in
    /\ Len(fit_in) >= 3
    /\ IsRegular(fit_in[1])
    /\ IsSystem(fit_in[3])
    /\ ~Degraded(fit_in, usable_token_limit)
    /\ fit_in[3].content # <<>>
    /\ fit_out[1] = fit_in[3]
    /\ IsRegular(fit_out[Len(fit_out)])

TruncatedIsReturned ==
    (fit_pc = "fitted" /\ TruncationCall(fit_in, usable_token_limit).pos # 0)
    => LET call == TruncationCall(fit_in, usable_token_limit)
       IN  \E i \in 1..Len(fit_out) :
              fit_out[i] = TruncateMessageContent(fit_in[call.pos], call.budget)

----------------------------------------------------------------------------
(* process_with_tools: the orchestration layer hands one conversation to   *)
(* successive calls.  A call runs from its entry to the await of the       *)
(* summary request (when maybe_summarize issues one), from there to the    *)
(* await of the model request, and from there to its return, or through    *)
(* the follow-up request when the response asks for tools.  The tools are  *)
(* taken not to touch the conversation.  The token count of a              *)
(* concatenation is the sum of the counts of its parts.                    *)

\* "\n\n"
Separator == TextOf("separator", SeparatorTokens)

\* "NOTE: Some earlier conversation has been summarized to save space."
SummarizedNote == TextOf("note", SummarizedNoteTokens)

\* "WARNING: Conversation is approaching the token limit (...% used). ..."
TokenWarning == TextOf("warning", TokenWarningTokens)

\* memory_context: "\n\n=== CONTEXTUAL MEMORY ===\n...:\n" + memories +
\* "\n=== END CONTEXTUAL MEMORY ==="
MemoryContext(memories) ==
    Concat(Concat(Concat(Separator, TextOf("memory_header", MemoryHeaderTokens)),
                  memories),
           TextOf("memory_footer", MemoryFooterTokens))

\* augmented_prompt.endswith("\n\n")
EndsWithSeparator(text) ==
    text # <<>> /\ text[Len(text)].src = "separator"

\* the list augmentations after the three tests
Augmentations(memories, summarization_occurred, should_warn) ==
    (IF memories # <<>> THEN <<MemoryContext(memories)>> ELSE <<>>)
    \o (IF summarization_occurred THEN <<SummarizedNote>> ELSE <<>>)
    \o (IF should_warn THEN <<TokenWarning>> ELSE <<>>)

RECURSIVE AppendEach(_, _)
AppendEach(augmented_prompt, augmentations) ==
    IF augmentations = <<>> THEN augmented_prompt
    ELSE AppendEach(
             Concat(IF EndsWithSeparator(augmented_prompt)
                    THEN augmented_prompt
                    ELSE Concat(augmented_prompt, Separator),
                    Head(augmentations)),
             Tail(augmentations))

\* slip: the augmentations are appended to the prompt the conversation
\* started with, without those of earlier calls
AugmentedPromptFromBase(current_system_prompt, augmentations) ==
    AppendEach(IF current_system_prompt = <<>> THEN <<>>
               ELSE <<Head(current_system_prompt)>>,
               augmentations)

\* augmented_prompt after the loop over the augmentations
AugmentedPrompt(current_system_prompt, augmentations) ==
    AppendEach(current_system_prompt, augmentations)

\* the history and the counters of the conversation
Conversation ==
    [messages |-> messages, current_tokens |-> current_tokens,
     warning_issued |-> warning_issued]

\* the history and the counters after conversation.add_message(content, role)
AfterAddMessage(c, content, role) ==
    LET message == Message(content, role)
        after == AddTokens(c.current_tokens, c.warning_issued, message.token_count)
    IN  [messages |-> Append(c.messages, message),
         current_tokens |-> after.current_tokens,
         warning_issued |-> after.warning_issued]

\* the checks of maybe_summarize before it builds the request, on the
\* conversation as add_message left it
PassesGuardsAfter(c) ==
    /\ ~summarization_performed
    /\ UsageReaches(c.current_tokens, summarize_threshold)
    /\ client
    /\ ~TooFewMessages(Len(c.messages))
    /\ NumToSummarize(Len(c.messages)) > 0

SnapshotOf(c) ==
    [messages |-> c.messages, system_prompt |-> system_prompt,
     current_tokens |-> c.current_tokens, warning_issued |-> c.warning_issued,
     summarization_performed |-> summarization_performed, requests |-> requests]

\* process_with_tools from the return of maybe_summarize to the await of the
\* model request: get_token_status, the augmentations, set_system_prompt
\* when there are any, get_messages
Augments(c, summarization_occurred, entered) ==
    LET should_warn == c.warning_issued
        augmentations ==
            Augmentations(entered.memories, summarization_occurred, should_warn)
        augmented_prompt == AugmentedPrompt(system_prompt.text, augmentations)
        after ==
            IF augmentations # <<>>
            THEN AddTokens(c.current_tokens, c.warning_issued,
                           PromptTokenDelta(estimate_tokens(augmented_prompt),
                                            CountedPromptTokens(system_prompt)))
            ELSE [current_tokens |-> c.current_tokens,
                  warning_issued |-> c.warning_issued]
    IN  /\ messages' = c.messages
        /\ system_prompt' = IF augmentations # <<>> THEN PromptOf(augmented_prompt)
                            ELSE system_prompt
        /\ current_tokens' = after.current_tokens
        /\ warning_issued' = after.warning_issued
        /\ turn' = [entered EXCEPT !.summarization_occurred = summarization_occurred,
                                   !.should_warn = should_warn,
                                   !.augmentations = augmentations]
        /\ out' = [kind |-> "messages", value |-> get_messages']
        /\ pc' = "requesting"

\* inputs of process_with_tools
ProcessThresholds == {<<80, 90>>}
ProcessPrompts ==
    {NoPrompt, PromptOf(<<>>), PromptOf(TextOf("p1", 200)),
     PromptOf(Concat(TextOf("p1", 200), Separator)), PromptOf(TextOf("p2", 1700))}
Questions == {TextOf("question", 400)}
MemoryChoices == {<<>>, TextOf("memories", 50)}
Responses == {<<>>, TextOf("response", 400)}
ToolResponses == {TextOf("tool_calls", 400)}
FollowUpPrompts == {TextOf("follow_up", 100)}

\* a conversation as its owner built it: the constructor, then
\* set_system_prompt unless it keeps None
ProcessInit ==
    /\ messages = <<>>
    /\ system_prompt \in ProcessPrompts
    /\ client = TRUE
    /\ max_tokens \in MaxTokensChoices
    /\ \E th \in ProcessThresholds :
          /\ warning_threshold = th[1]
          /\ summarize_threshold = th[2]
          /\ LET after == AddTokens(0, FALSE, CountedPromptTokens(system_prompt))
             IN  /\ current_tokens = after.current_tokens
                 /\ warning_issued = after.warning_issued
    /\ summarization_performed = FALSE
    /\ pc = "idle"
    /\ to_summarize = <<>>
    /\ recent_messages = <<>>
    /\ ret = "none"
    /\ completion = NoCompletion
    /\ requests = 0
    /\ out = NoOut
    /\ successes = 0
    /\ pre = NoPre
    /\ run0 = NoRun
    /\ turn = NoTurn
    /\ fit_pc = "off"
    /\ fit_in = <<>>
    /\ usable_token_limit = max_tokens - ResponseTokenBuffer
    /\ fit_out = <<>>
    /\ refit_out = <<>>

\* the call is handed a conversation whose system prompt is None: the slice
\* of the debug print raises TypeError before the try block
ProcessRaisesOnNone ==
    /\ pc = "idle"
    /\ turn.n < MaxTurns
    /\ ~system_prompt.set
    /\ turn' = [NoTurn EXCEPT !.n = turn.n + 1]
    /\ out' = [kind |-> "raised"]
    /\ UNCHANGED <<messages, system_prompt, client, max_tokens, warning_threshold,
                   summarize_threshold, current_tokens, warning_issued,
                   summarization_performed, pc, to_summarize, recent_messages,
                   ret, completion, requests, successes, pre, run0>>
    /\ UNCHANGED fitVars

\* a call in which maybe_summarize returns False from one of its guards: from
\* the entry to the await of the model request
process_asks(question, memories) ==
    LET c == AfterAddMessage(Conversation, question, "user")
    IN  /\ pc = "idle"
        /\ turn.n < MaxTurns
        /\ system_prompt.set
        /\ ~PassesGuardsAfter(c)
        /\ ret' = "false"
        /\ completion' = NoCompletion
        /\ pre' = SnapshotOf(c)
        /\ run0' = NoRun
        /\ Augments(c, FALSE, [NoTurn EXCEPT !.n = turn.n + 1,
                                             !.memories = memories])
        /\ UNCHANGED <<client, max_tokens, warning_threshold, summarize_threshold,
                       summarization_performed, to_summarize, recent_messages,
                       requests, successes>>
        /\ UNCHANGED fitVars

ProcessAsks ==
    \E question \in Questions : \E memories \in MemoryChoices :
        process_asks(question, memories)

\* a call in which maybe_summarize issues its request: from the entry to
\* "await self.client.complete(...)" of maybe_summarize
process_asks_summarizing(question, memories) ==
    LET c == AfterAddMessage(Conversation, question, "user")
        num_to_summarize == NumToSummarize(Len(c.messages))
    IN  /\ pc = "idle"
        /\ turn.n < MaxTurns
        /\ system_prompt.set
        /\ PassesGuardsAfter(c)
        /\ messages' = c.messages
        /\ current_tokens' = c.current_tokens
        /\ warning_issued' = c.warning_issued
        /\ to_summarize' = SubSeq(c.messages, 1, num_to_summarize)
        /\ recent_messages' =
               SubSeq(c.messages, num_to_summarize + 1, Len(c.messages))
        /\ requests' = requests + 1
        /\ pc' = "awaiting"
        /\ ret' = "pending"
        /\ completion' = [kind |-> "pending", text |-> <<>>]
        /\ pre' = SnapshotOf(c)
        /\ run0' = NoRun
        /\ out' = NoOut
        /\ turn' = [NoTurn EXCEPT !.n = turn.n + 1, !.memories = memories]
        /\ UNCHANGED <<system_prompt, client, max_tokens, warning_threshold,
                       summarize_threshold, summarization_performed, successes>>
        /\ UNCHANGED fitVars

ProcessAsksSummarizing ==
    \E question \in Questions : \E memories \in MemoryChoices :
        process_asks_summarizing(question, memories)

\* the summary request raises: maybe_summarize returns False, and the call
\* goes on to the await of the model request
ProcessSummaryRaises ==
    /\ pc = "awaiting"
    /\ ret' = "false"
    /\ completion' = [kind |-> "raised", text |-> <<>>]
    /\ to_summarize' = <<>>
    /\ recent_messages' = <<>>
    /\ Augments(Conversation, FALSE, turn)
    /\ UNCHANGED <<client, max_tokens, warning_threshold, summarize_threshold,
                   summarization_performed, requests, successes, pre, run0>>
    /\ UNCHANGED fitVars

\* the summary request returns summary_text: the rest of maybe_summarize, and
\* the call goes on to the await of the model request
process_summary_returns(summary_text) ==
    LET old_tokens == SumTokenCounts(to_summarize)
        summary_tokens == estimate_tokens(summary_text)
        summary_message == SummaryMessage(summary_text, summary_tokens)
        shorter == SummaryIsShorter(summary_tokens, old_tokens)
        c == IF shorter
             THEN [messages |-> HistoryAfterSummary(summary_message, recent_messages,
                                                    messages, Len(to_summarize)),
                   current_tokens |->
                       current_tokens + TokenAdjustment(summary_tokens, old_tokens),
                   warning_issued |-> warning_issued]
             ELSE Conversation
    IN  /\ pc = "awaiting"
        /\ completion' = [kind |-> "returned", text |-> summary_text]
        /\ to_summarize' = <<>>
        /\ recent_messages' = <<>>
        /\ summarization_performed' = (summarization_performed \/ shorter)
        /\ successes' = IF shorter THEN successes + 1 ELSE successes
        /\ ret' = IF shorter THEN "true" ELSE "false"
        /\ Augments(c, shorter, turn)
        /\ UNCHANGED <<client, max_tokens, warning_threshold, summarize_threshold,
                       requests, pre, run0>>
        /\ UNCHANGED fitVars

ProcessSummaryReturns ==
    \E summary_text \in SummaryTexts : process_summary_returns(summary_text)

\* the model's response asks for tools: the response and the follow-up prompt
\* are added, get_messages, and the call awaits the follow-up request
process_tool_calls(response_text, follow_up_prompt) ==
    LET c == AfterAddMessage(AfterAddMessage(Conversation, response_text, "assistant"),
                             follow_up_prompt, "user")
    IN  /\ pc = "requesting"
        /\ messages' = c.messages
        /\ current_tokens' = c.current_tokens
        /\ warning_issued' = c.warning_issued
        /\ UNCHANGED <<system_prompt, client, max_tokens, warning_threshold,
                       summarize_threshold, summarization_performed, to_summarize,
                       recent_messages, ret, completion, requests, successes, pre,
                       run0, turn>>
        /\ out' = [kind |-> "messages", value |-> get_messages']
        /\ pc' = "following"
        /\ UNCHANGED fitVars

ProcessToolCalls ==
    \E response_text \in ToolResponses : \E follow_up_prompt \in FollowUpPrompts :
        process_tool_calls(response_text, follow_up_prompt)

\* the response that ends the call is added to the history, and the call
\* returns
process_responds(response_text) ==
    LET c == AfterAddMessage(Conversation, response_text, "assistant")
    IN  /\ pc \in {"requesting", "following"}
        /\ messages' = c.messages
        /\ current_tokens' = c.current_tokens
        /\ warning_issued' = c.warning_issued
        /\ out' = [kind |-> "returned"]
        /\ pc' = "idle"
        /\ UNCHANGED <<system_prompt, client, max_tokens, warning_threshold,
                       summarize_threshold, summarization_performed, to_summarize,
                       recent_messages, ret, completion, requests, successes, pre,
                       run0, turn>>
        /\ UNCHANGED fitVars

ProcessResponds == \E response_text \in Responses : process_responds(response_text)

\* a model request raises: the except clause returns the error text
ProcessRequestRaises ==
    /\ pc \in {"requesting", "following"}
    /\ out' = [kind |-> "raised"]
    /\ pc' = "idle"
    /\ UNCHANGED <<messages, system_prompt, client, max_tokens, warning_threshold,
                   summarize_threshold, current_tokens, warning_issued,
                   summarization_performed, to_summarize, recent_messages, ret,
                   completion, requests, successes, pre, run0, turn>>
    /\ UNCHANGED fitVars

ProcessNext ==
    \/ ProcessRaisesOnNone
    \/ ProcessAsks
    \/ ProcessAsksSummarizing
    \/ ProcessSummaryRaises
    \/ ProcessSummaryReturns
    \/ ProcessToolCalls
    \/ ProcessResponds
    \/ ProcessRequestRaises

SpecProcess == ProcessInit /\ [][ProcessNext]_vars

----------------------------------------------------------------------------
(* Claims about process_with_tools *)

\* t1 is a prefix of t2, token by token
IsPrefixOf(t1, t2) == TakeTokens(t2, TokenLen(t1)) = t1

\* the WARNING notices in a prompt
WarningCount(text) ==
    Cardinality({i \in 1..Len(text) : text[i] = Head(TokenWarning)})

\* current_tokens less the cached counts of the history: what the counter
\* holds for the system prompt
CountedBesidesHistory(tokens, msgs) == tokens - SumTokenCounts(msgs)

\* the call passes from maybe_summarize to the model request: the step in
\* which it augments the system prompt
AugmentingStep == pc \in {"idle", "awaiting"} /\ pc' = "requesting"

====
